---- MODULE Spec2Model ----
(***************************************************************************)
(* Drought-monitoring and index-insurance system (Django app "farms").     *)
(*                                                                         *)
(* Units.  Index values (ndvi, ndmi, bsi and the NDVI thresholds) are kept *)
(* in hundredths, so 0.3 is 30; rainfall is in whole millimetres; money of *)
(* a policy is in whole shillings and a computed payout is in cents (the   *)
(* code rounds it to two decimals).  payout_rate is in percent.            *)
(*                                                                         *)
(* Rainfall zone model (CLASSIFICATION_MODEL_TRAINER.py and                *)
(* rainfall_zone_model/predictor.py).  Rainfall values are whole           *)
(* millimetres; a computed feature is an exact fraction, the square root   *)
(* of one, or NaN.                                                         *)
(***************************************************************************)
EXTENDS Integers, Sequences, FiniteSets, TLC

VARIABLES
    env,        \* os.environ: NDVI_THRESHOLD_SEVERE, RAINFALL_THRESHOLD_MM
    reading,    \* one SatelliteAnalysis instance (risk-scorer specification)
    stored,     \* whether `reading` has been saved
    policy,     \* one InsurancePolicy instance (payout specification)
    payout,     \* the outcome of calculate_payout, or NoCall
    user_type,  \* CustomUser.user_type of every user
    policies,   \* table InsurancePolicy
    analyses,   \* table SatelliteAnalysis (a sequence of rows, index = pk)
    claims,     \* table InsuranceClaim (a sequence of rows, index = pk)
    reqs,       \* trigger_insurance_check requests in flight, per worker
    response,   \* the last finished request: view, user, HTTP status, message
    rainfall,   \* the rainfall series of one location handed to the zone model
    features,   \* the feature dict the last feature calculator returned
    files,      \* the files of the working directory, by path
    predictor,  \* the RainfallZonePredictor object, once constructed
    prediction, \* the dict the last predict call returned
    raised      \* the exception the last call of the zone model raised

\* The state of the rainfall zone model (trainer and predictor scripts).
zone_vars == <<rainfall, features, files, predictor, prediction, raised>>

vars == <<env, reading, stored, policy, payout, user_type, policies,
          analyses, claims, reqs, response, zone_vars>>

\* Python's None for a nullable numeric field (null=True).
None == -1000

\* ------------------------------------------------------------------------
\* SatelliteAnalysis: risk scorer (farms/models.py)
\* ------------------------------------------------------------------------

\* An NDVI table whose two lowest bands have changed places.
NdviPoints_swapped(ndvi) ==
    IF ndvi # None
    THEN IF ndvi < 20 THEN 30
         ELSE IF ndvi < 30 THEN 40
         ELSE IF ndvi < 40 THEN 20
         ELSE IF ndvi < 60 THEN 10
         ELSE 0
    ELSE 0

\* The NDVI branch of calculate_risk_score.
NdviPoints(ndvi) ==
    IF ndvi # None
    THEN IF ndvi < 20 THEN 40
         ELSE IF ndvi < 30 THEN 30
         ELSE IF ndvi < 40 THEN 20
         ELSE IF ndvi < 60 THEN 10
         ELSE 0
    ELSE 0

\* The rainfall branch of calculate_risk_score.
RainfallPoints(rainfall_mm) ==
    IF rainfall_mm # None
    THEN IF rainfall_mm < 25 THEN 30
         ELSE IF rainfall_mm < 50 THEN 20
         ELSE IF rainfall_mm < 75 THEN 10
         ELSE 0
    ELSE 0

\* The NDMI branch of calculate_risk_score.
NdmiPoints(ndmi) ==
    IF ndmi # None
    THEN IF ndmi < 0 THEN 20
         ELSE IF ndmi < 20 THEN 10
         ELSE 0
    ELSE 0

\* The BSI branch of calculate_risk_score.
BsiPoints(bsi) ==
    IF bsi # None
    THEN IF bsi > 30 THEN 10 ELSE 0
    ELSE 0

Min(a, b) == IF a < b THEN a ELSE b
Max(a, b) == IF a > b THEN a ELSE b

\* A scorer that forgets the final cap and weighs NDVI double.
calculate_risk_score_uncapped(a) ==
    2 * NdviPoints(a.ndvi) + RainfallPoints(a.rainfall_mm)
        + NdmiPoints(a.ndmi) + BsiPoints(a.bsi)

\* A scorer whose rainfall branch has lost its "is not None" test.
calculate_risk_score_nullrain(a) ==
    Min(NdviPoints(a.ndvi)
          + (IF a.rainfall_mm < 25 THEN 30
             ELSE IF a.rainfall_mm < 50 THEN 20
             ELSE IF a.rainfall_mm < 75 THEN 10 ELSE 0)
          + NdmiPoints(a.ndmi) + BsiPoints(a.bsi), 100)

\* SatelliteAnalysis.calculate_risk_score
calculate_risk_score(a) ==
    Min(NdviPoints(a.ndvi) + RainfallPoints(a.rainfall_mm)
          + NdmiPoints(a.ndmi) + BsiPoints(a.bsi), 100)

\* A tiering that calls a score of exactly 70 'moderate'.
RiskLevelOf_strict(score) ==
    IF score > 70 THEN "high"
    ELSE IF score >= 40 THEN "moderate"
    ELSE "low"

\* SatelliteAnalysis.save: "Determine risk level".
RiskLevelOf(score) ==
    IF score >= 70 THEN "high"
    ELSE IF score >= 40 THEN "moderate"
    ELSE "low"

\* The list `triggers` built by check_insurance_trigger; every entry is a
\* non-empty text, kept here by the condition that produced it.
TriggerList(a, e) ==
    (IF a.ndvi # None /\ a.ndvi < e.NDVI_THRESHOLD_SEVERE
        THEN <<"NDVI below threshold">> ELSE <<>>)
    \o (IF a.rainfall_mm # None /\ a.rainfall_mm < e.RAINFALL_THRESHOLD_MM
        THEN <<"Rainfall below threshold">> ELSE <<>>)
    \o (IF a.drought_risk_level \in {"moderate", "high"}
        THEN <<"Drought risk level">> ELSE <<>>)

\* A trigger check that looks at the risk level only.
check_insurance_trigger_levelonly(a, e) ==
    LET triggers == IF a.drought_risk_level \in {"moderate", "high"}
                    THEN <<"Drought risk level">> ELSE <<>>
    IN  [a EXCEPT !.insurance_triggered = (triggers # <<>>),
                  !.trigger_reason = triggers]

\* A trigger check that looks at the two thresholds only.
check_insurance_trigger_nolevel(a, e) ==
    LET triggers == TriggerList([a EXCEPT !.drought_risk_level = "low"], e)
    IN  [a EXCEPT !.insurance_triggered = (triggers # <<>>),
                  !.trigger_reason = triggers]

\* SatelliteAnalysis.check_insurance_trigger; trigger_reason is the joined
\* list, empty exactly when the list is empty.
check_insurance_trigger(a, e) ==
    LET triggers == TriggerList(a, e)
    IN  IF triggers # <<>>
        THEN [a EXCEPT !.insurance_triggered = TRUE,
                       !.trigger_reason = triggers]
        ELSE [a EXCEPT !.insurance_triggered = FALSE,
                       !.trigger_reason = <<>>]

\* A save that checks the triggers before it sets the risk level.
save_triggerfirst(a, e) ==
    LET score == calculate_risk_score(a)
        b == check_insurance_trigger(a, e)
    IN  [b EXCEPT !.risk_score = score,
                  !.drought_risk_level = RiskLevelOf(score)]

\* SatelliteAnalysis.save, up to the call of the database save.
save(a, e) ==
    LET score == calculate_risk_score(a)
        b == [a EXCEPT !.risk_score = score,
                       !.drought_risk_level = RiskLevelOf(score)]
    IN  check_insurance_trigger(b, e)

\* SatelliteAnalysis(...) as the views construct it: the field defaults.
NewAnalysis(farm, period, ndvi, rainfall_mm, ndmi, bsi) ==
    [farm |-> farm, period |-> period,
     ndvi |-> ndvi, rainfall_mm |-> rainfall_mm, ndmi |-> ndmi, bsi |-> bsi,
     risk_score |-> None, drought_risk_level |-> "low",
     insurance_triggered |-> FALSE, trigger_reason |-> <<>>]

\* A GEE scorer whose BSI branch has lost its threshold.
calculate_risk_from_gee_anybsi(ndvi, rainfall_mm, ndmi, bsi) ==
    LET score == NdviPoints(ndvi) + RainfallPoints(rainfall_mm)
                   + NdmiPoints(ndmi) + (IF bsi # None THEN 10 ELSE 0)
    IN  <<RiskLevelOf(score), score>>

\* gee_utils.calculate_risk_from_gee: the pair (level, score) it returns;
\* its parameter rainfall is rainfall_mm here.
calculate_risk_from_gee(ndvi, rainfall_mm, ndmi, bsi) ==
    LET s1 == IF ndvi # None
              THEN IF ndvi < 20 THEN 40
                   ELSE IF ndvi < 30 THEN 30
                   ELSE IF ndvi < 40 THEN 20
                   ELSE IF ndvi < 60 THEN 10
                   ELSE 0
              ELSE 0
        s2 == IF rainfall_mm # None
              THEN IF rainfall_mm < 25 THEN 30
                   ELSE IF rainfall_mm < 50 THEN 20
                   ELSE IF rainfall_mm < 75 THEN 10
                   ELSE 0
              ELSE 0
        s3 == IF ndmi # None
              THEN IF ndmi < 0 THEN 20
                   ELSE IF ndmi < 20 THEN 10
                   ELSE 0
              ELSE 0
        s4 == IF bsi # None
              THEN IF bsi > 30 THEN 10 ELSE 0
              ELSE 0
        score == s1 + s2 + s3 + s4
    IN  IF score >= 70 THEN <<"high", score>>
        ELSE IF score >= 40 THEN <<"moderate", score>>
        ELSE <<"low", score>>

\* The defaults os.getenv falls back to in check_insurance_trigger.
DefaultEnv == [NDVI_THRESHOLD_SEVERE |-> 30, RAINFALL_THRESHOLD_MM |-> 50]

\* ------------------------------------------------------------------------
\* InsurancePolicy: payout calculator (farms/models.py)
\* ------------------------------------------------------------------------

\* Exact fractions <<numerator, denominator>> with a positive denominator
\* stand for the floating point numbers of the code.
RECURSIVE Gcd(_, _)
Gcd(a, b) == IF b = 0 THEN a ELSE Gcd(b, a % b)

Abs(x) == IF x < 0 THEN -x ELSE x

\* n / d for d # 0, in lowest terms.
Frac(n, d) ==
    LET g == Gcd(Abs(n), Abs(d))
        s == IF d < 0 THEN -1 ELSE 1
    IN  <<(s * n) \div g, (s * d) \div g>>

FracAdd(x, y) == Frac(x[1] * y[2] + y[1] * x[2], x[2] * y[2])
FracMul(x, y) == Frac(x[1] * y[1], x[2] * y[2])
FracLess(x, y) == x[1] * y[2] < y[1] * x[2]
FracMax(x, y) == IF FracLess(x, y) THEN y ELSE x
FracMin(x, y) == IF FracLess(x, y) THEN x ELSE y

\* round(x, 2) of the code, as a whole number of cents: the nearest cent,
\* a tie going to the even cent.
Round2(x) ==
    LET n == 100 * x[1]
        q == n \div x[2]
        r == n % x[2]
    IN  IF 2 * r < x[2] THEN q
        ELSE IF 2 * r > x[2] THEN q + 1
        ELSE IF q % 2 = 0 THEN q ELSE q + 1

\* Python truth of a nullable number: None and 0 are both false.
Truthy(x) == x # None /\ x # 0

\* "if analysis.ndvi and analysis.ndvi < self.ndvi_trigger"
NdviFires(p, a) == Truthy(a.ndvi) /\ a.ndvi < p.ndvi_trigger

\* "if analysis.rainfall_mm and analysis.rainfall_mm < self.rainfall_trigger"
RainfallFires(p, a) ==
    Truthy(a.rainfall_mm) /\ a.rainfall_mm < p.rainfall_trigger

\* A payout without the risk level contribution.
RiskLevelFires_never(p, a) == FALSE

\* The if / elif on risk_level_trigger.
RiskLevelFires(p, a) ==
    \/ p.risk_level_trigger = "moderate"
         /\ a.drought_risk_level \in {"moderate", "high"}
    \/ p.risk_level_trigger = "high" /\ a.drought_risk_level = "high"

\* "payout += float(self.sum_insured) * severity * 0.4" of the NDVI branch,
\* nothing when the branch is not taken.
NdviContribution(p, a) ==
    IF NdviFires(p, a)
    THEN FracMul(FracMul(<<p.sum_insured, 1>>,
             Frac(p.ndvi_trigger - a.ndvi, p.ndvi_trigger)),
             Frac(4, 10))
    ELSE <<0, 1>>

\* The same of the rainfall branch.
RainfallContribution(p, a) ==
    IF RainfallFires(p, a)
    THEN FracMul(FracMul(<<p.sum_insured, 1>>,
             Frac(p.rainfall_trigger - a.rainfall_mm, p.rainfall_trigger)),
             Frac(4, 10))
    ELSE <<0, 1>>

\* "payout += float(self.sum_insured) * 0.2" of the risk level branch.
RiskLevelContribution(p, a) ==
    IF RiskLevelFires(p, a)
    THEN FracMul(<<p.sum_insured, 1>>, Frac(2, 10))
    ELSE <<0, 1>>

\* The running total `payout` before the payout rate is applied.
TriggerSum(p, a) ==
    FracAdd(FracAdd(NdviContribution(p, a), RainfallContribution(p, a)),
            RiskLevelContribution(p, a))

\* Rate, deductible and cap without the floor at 0.
ApplyRateAndLimits_nofloor(p, total) ==
    LET rated == FracMul(total, Frac(p.payout_rate, 100))
        net == FracAdd(rated, <<-p.deductible, 1>>)
    IN  FracMin(net, <<p.max_payout, 1>>)

\* "Apply payout rate and deductibles": rate, deductible floored at 0, cap.
ApplyRateAndLimits(p, total) ==
    LET rated == FracMul(total, Frac(p.payout_rate, 100))
        net == FracMax(FracAdd(rated, <<-p.deductible, 1>>), <<0, 1>>)
    IN  FracMin(net, <<p.max_payout, 1>>)

\* The outcome of a call: a returned amount in cents, or a raised
\* ZeroDivisionError.
Returned(cents) == [raised |-> FALSE, amount |-> cents]
ZeroDivisionError == [raised |-> TRUE, amount |-> 0]

\* InsurancePolicy.calculate_payout(analysis); arg is <<>> for None and
\* <<a>> for an analysis a.
calculate_payout(p, arg) ==
    IF arg = <<>> THEN Returned(0)
    ELSE LET a == arg[1] IN
         IF \/ NdviFires(p, a) /\ p.ndvi_trigger = 0
            \/ RainfallFires(p, a) /\ p.rainfall_trigger = 0
         THEN ZeroDivisionError
         ELSE Returned(Round2(ApplyRateAndLimits(p, TriggerSum(p, a))))

\* ------------------------------------------------------------------------
\* Values the specifications draw their inputs from
\* ------------------------------------------------------------------------

\* Index and rainfall values on, next to and between the thresholds.
NdviValues == {None, -20, 0, 15, 19, 20, 29, 30, 39, 40, 59, 60, 65}
RainfallValues == {None, 0, 20, 24, 25, 49, 50, 74, 75, 120}
NdmiValues == {None, -10, 0, 19, 20, 30}
BsiValues == {None, 10, 30, 31, 40}

\* Values of the two environment variables: the defaults and others.
EnvValues ==
    [NDVI_THRESHOLD_SEVERE : {20, 30, 45}, RAINFALL_THRESHOLD_MM : {25, 50}]

\* The parts of the state a specification does not use.
NoCall == [raised |-> FALSE, amount |-> -1]
NoPolicy == [sum_insured |-> 0, ndvi_trigger |-> 0, rainfall_trigger |-> 0,
             risk_level_trigger |-> "moderate", payout_rate |-> 0,
             deductible |-> 0, max_payout |-> 0]
NoResponse ==
    [op |-> "none", user |-> "", code |-> 0, message |-> "", results |-> <<>>]

\* The paths the two scripts use: the defaults of save_model and of
\* RainfallZonePredictor.__init__, and the JSON copy of the profiles.
Paths ==
    {"rainfall_classification_model.pkl", "rainfall_zone_model.pkl",
     "cluster_profiles.json"}

\* A path with no file, a predictor not constructed, no call made.
NoFile == [exists |-> FALSE]
NoPredictor == [loaded |-> FALSE]
NoFeatures == [by |-> "none"]
NoPrediction == [made |-> FALSE]

\* The zone model while the web application is looked at on its own.
ZoneIdle ==
    /\ rainfall = <<>>
    /\ features = NoFeatures
    /\ files = [f \in Paths |-> NoFile]
    /\ predictor = NoPredictor
    /\ prediction = NoPrediction
    /\ raised = ""

\* ------------------------------------------------------------------------
\* Specification SpecScore: one reading is built, saved and edited
\* ------------------------------------------------------------------------

InitScore ==
    /\ env \in EnvValues
    /\ \E n \in NdviValues, r \in RainfallValues,
          m \in NdmiValues, b \in BsiValues :
          reading = NewAnalysis("F1", 1, n, r, m, b)
    /\ stored = FALSE
    /\ policy = NoPolicy
    /\ payout = NoCall
    /\ user_type = <<>>
    /\ policies = <<>>
    /\ analyses = <<>>
    /\ claims = <<>>
    /\ reqs = <<>>
    /\ response = NoResponse
    /\ ZoneIdle

\* analysis.save() of a newly built reading.
SaveReading ==
    /\ ~stored
    /\ reading' = save(reading, env)
    /\ stored' = TRUE
    /\ UNCHANGED <<zone_vars,
                   env, policy, payout, user_type, policies, analyses,
                   claims, reqs, response>>

\* The admin change form of a stored reading: one of the four inputs is
\* edited (the derived fields are read-only there) and the reading saved.
EditReading ==
    /\ stored
    /\ \/ \E n \in NdviValues :
            reading' = save([reading EXCEPT !.ndvi = n], env)
       \/ \E r \in RainfallValues :
            reading' = save([reading EXCEPT !.rainfall_mm = r], env)
       \/ \E m \in NdmiValues :
            reading' = save([reading EXCEPT !.ndmi = m], env)
       \/ \E b \in BsiValues :
            reading' = save([reading EXCEPT !.bsi = b], env)
    /\ UNCHANGED <<zone_vars,
                   env, stored, policy, payout, user_type, policies,
                   analyses, claims, reqs, response>>

NextScore == SaveReading \/ EditReading

SpecScore == InitScore /\ [][NextScore]_vars

\* ------------------------------------------------------------------------
\* Specification SpecPayout: calculate_payout on one policy and one reading
\* ------------------------------------------------------------------------

SumInsuredValues == {1000, 100000}
NdviTriggerValues == {-10, 0, 30}
RainfallTriggerValues == {0, 50}
PayoutRateValues == {0, 70, 100}
DeductibleValues == {0, 1000}
MaxPayoutValues == {0, 500, 50000}

PolicyValues ==
    [sum_insured : SumInsuredValues, ndvi_trigger : NdviTriggerValues,
     rainfall_trigger : RainfallTriggerValues,
     risk_level_trigger : {"moderate", "high"},
     payout_rate : PayoutRateValues, deductible : DeductibleValues,
     max_payout : MaxPayoutValues]

\* The stored readings a payout is computed from.
PayoutReadings ==
    {save(NewAnalysis("F1", 1, n, r, m, b), DefaultEnv) :
        n \in {None, -20, 0, 15, 30, 45}, r \in {None, 0, 20, 50, 80},
        m \in {None, -10, 30}, b \in {None, 40}}

InitPayout ==
    /\ env = DefaultEnv
    /\ policy \in PolicyValues
    /\ reading \in PayoutReadings
    /\ stored \in BOOLEAN
    /\ payout = NoCall
    /\ user_type = <<>>
    /\ policies = <<>>
    /\ analyses = <<>>
    /\ claims = <<>>
    /\ reqs = <<>>
    /\ response = NoResponse
    /\ ZoneIdle

\* policy.calculate_payout(analysis); the analysis is None when no reading
\* is stored.
CalculatePayout ==
    /\ payout = NoCall
    /\ payout' = calculate_payout(policy, IF stored THEN <<reading>> ELSE <<>>)
    /\ UNCHANGED <<zone_vars,
                   env, reading, stored, policy, user_type, policies,
                   analyses, claims, reqs, response>>

NextPayout == CalculatePayout

SpecPayout == InitPayout /\ [][NextPayout]_vars

\* ------------------------------------------------------------------------
\* Users, policies, stored readings and claims (farms/models.py)
\* ------------------------------------------------------------------------

Users == {"ua", "ub"}

\* CustomUser.is_admin
is_admin(u) == user_type[u] = "admin"

\* InsuranceClaim.CLAIM_STATUS
CLAIM_STATUS ==
    {"draft", "submitted", "under_review", "approved", "rejected", "paid",
     "closed"}

\* A null foreign key to a user.
NoUser == ""

\* The policy of scenario 4 of the specification, held by user ub on farm F1:
\* sum insured 100000, triggers 0.3 and 50 mm, rate 0.7, deductible 1000,
\* cap 50000.
PolicyP1 ==
    [sum_insured |-> 100000, ndvi_trigger |-> 30, rainfall_trigger |-> 50,
     risk_level_trigger |-> "moderate", payout_rate |-> 70,
     deductible |-> 1000, max_payout |-> 50000,
     farm |-> "F1", farmer |-> "ub", status |-> "active",
     in_coverage |-> TRUE]

\* A second policy on the same farm whose coverage window has passed.
PolicyP2 ==
    [sum_insured |-> 1000, ndvi_trigger |-> 30, rainfall_trigger |-> 50,
     risk_level_trigger |-> "high", payout_rate |-> 100,
     deductible |-> 0, max_payout |-> 500,
     farm |-> "F1", farmer |-> "ub", status |-> "active",
     in_coverage |-> FALSE]

\* InsurancePolicy.is_active; in_coverage tells whether
\* coverage_start <= today <= coverage_end.
is_active(p) == p.status = "active" /\ p.in_coverage

\* Stored readings of farm F1: scenario 2 (score 100) for period 1 and
\* scenario 3 (score 0) for period 2.
ReadingA1 == save(NewAnalysis("F1", 1, 15, 20, -10, 40), DefaultEnv)
ReadingA2 == save(NewAnalysis("F1", 2, 65, 120, 30, 10), DefaultEnv)

\* A can_be_edited that lets an administrator edit a claim in any status.
can_be_edited_adminany(c, u) ==
    IF is_admin(u) THEN TRUE
    ELSE IF u = c.submitted_by THEN c.status \in {"draft", "submitted"}
    ELSE FALSE

\* InsuranceClaim.can_be_edited
can_be_edited(c, u) ==
    IF is_admin(u) \/ u = c.submitted_by
    THEN c.status \in {"draft", "submitted"}
    ELSE FALSE

\* "a or b" of Python on nullable amounts.
PyOr(a, b) == IF Truthy(a) THEN a ELSE b

\* ------------------------------------------------------------------------
\* Claim views (farms/views.py, farms/forms.py)
\* ------------------------------------------------------------------------

\* The HTTP outcome of a view and the level of the message it flashes; the
\* 'results' list of the JSON body is empty unless the view fills it.
Resp(op, u, code, message) ==
    [op |-> op, user |-> u, code |-> code, message |-> message,
     results |-> <<>>]

\* InsuranceClaimForm validation of the posted policy, farm and triggering
\* reading: the policy is an active one (of the user, unless an
\* administrator), and the reading is one of the policy's farm.
ClaimFormValid(u, p, a) ==
    /\ p \in DOMAIN policies
    /\ policies[p].status = "active"
    /\ is_admin(u) \/ policies[p].farmer = u
    /\ a \in 1..Len(analyses)
    /\ analyses[a].farm = policies[p].farm

\* ClaimCreateView.get_initial: the claimed amount the form is pre-filled
\* with, which the user submits as it is.
PrefilledAmount(p, a) ==
    calculate_payout(policies[p], <<analyses[a]>>).amount

\* CustomUserAdmin: an administrator of the site changes a user's type.
SetUserType(u, t) ==
    /\ user_type[u] # t
    /\ user_type' = [user_type EXCEPT ![u] = t]
    /\ UNCHANGED <<zone_vars,
                   env, reading, stored, policy, payout, policies, analyses,
                   claims, reqs, response>>

\* ClaimCreateView: test_func, the form, form_valid.
ClaimCreateView(u, p, a, st, amt) ==
    /\ IF ~(is_admin(u) \/ user_type[u] = "insurance_agent")
       THEN /\ response' = Resp("ClaimCreateView", u, 403, "")
            /\ UNCHANGED claims
       ELSE IF ~ClaimFormValid(u, p, a)
       THEN /\ response' = Resp("ClaimCreateView", u, 200, "")
            /\ UNCHANGED claims
       ELSE /\ claims' = Append(claims,
                [policy |-> p, triggered_by |-> a,
                 status |-> IF st = "draft" THEN "submitted" ELSE st,
                 claimed_amount |-> amt, approved_amount |-> None,
                 paid_amount |-> None, submitted_by |-> u,
                 reviewed_by |-> NoUser, reviewed_date |-> None,
                 review_notes |-> ""])
            /\ response' = Resp("ClaimCreateView", u, 302, "success")
    /\ UNCHANGED <<zone_vars,
                   env, reading, stored, policy, payout, user_type, policies,
                   analyses, reqs>>

\* ClaimUpdateView: test_func, the form (policy and reading re-posted as
\* they are), form_valid.
ClaimUpdateView(u, c, st, amt, submit) ==
    /\ c \in 1..Len(claims)
    /\ IF ~can_be_edited(claims[c], u)
       THEN /\ response' = Resp("ClaimUpdateView", u, 403, "")
            /\ UNCHANGED claims
       ELSE IF ~ClaimFormValid(u, claims[c].policy, claims[c].triggered_by)
       THEN /\ response' = Resp("ClaimUpdateView", u, 200, "")
            /\ UNCHANGED claims
       ELSE /\ claims' = [claims EXCEPT ![c] =
                [@ EXCEPT !.status = IF st = "draft" /\ submit
                                     THEN "submitted" ELSE st,
                          !.claimed_amount = amt]]
            /\ response' = Resp("ClaimUpdateView", u, 302, "success")
    /\ UNCHANGED <<zone_vars,
                   env, reading, stored, policy, payout, user_type, policies,
                   analyses, reqs>>

\* timezone.now() and date.today(): the clock is not followed, every call
\* reads the same moment.
Now == 1

\* An approval that marks the claim approved before it parses the amount.
approve_claim_statusfirst(u, c, method, inp) ==
    /\ c \in 1..Len(claims)
    /\ IF ~is_admin(u)
       THEN /\ response' = Resp("approve_claim", u, 403, "")
            /\ UNCHANGED claims
       ELSE IF method # "POST"
       THEN /\ response' = Resp("approve_claim", u, 302, "")
            /\ UNCHANGED claims
       ELSE IF inp.kind # "number"
       THEN /\ claims' = [claims EXCEPT ![c] =
                [@ EXCEPT !.status = "approved", !.reviewed_by = u]]
            /\ response' = Resp("approve_claim", u, 302, "error")
       ELSE /\ claims' = [claims EXCEPT ![c] =
                [@ EXCEPT !.approved_amount = inp.value,
                          !.status = "approved",
                          !.reviewed_by = u,
                          !.reviewed_date = Now,
                          !.review_notes = inp.notes]]
            /\ response' = Resp("approve_claim", u, 302, "success")
    /\ UNCHANGED <<zone_vars,
                   env, reading, stored, policy, payout, user_type, policies,
                   analyses, reqs>>

\* approve_claim; inp is the posted approved_amount, a number (in cents), a
\* text that is no number, or missing, with the posted review_notes.
approve_claim(u, c, method, inp) ==
    /\ c \in 1..Len(claims)
    /\ IF ~is_admin(u)
       THEN /\ response' = Resp("approve_claim", u, 403, "")
            /\ UNCHANGED claims
       ELSE IF method # "POST"
       THEN /\ response' = Resp("approve_claim", u, 302, "")
            /\ UNCHANGED claims
       ELSE IF inp.kind = "missing"
       THEN /\ response' = Resp("approve_claim", u, 500, "")
            /\ UNCHANGED claims
       ELSE IF inp.kind = "text"
       THEN /\ response' = Resp("approve_claim", u, 302, "error")
            /\ UNCHANGED claims
       ELSE /\ claims' = [claims EXCEPT ![c] =
                [@ EXCEPT !.approved_amount = inp.value,
                          !.status = "approved",
                          !.reviewed_by = u,
                          !.reviewed_date = Now,
                          !.review_notes = inp.notes]]
            /\ response' = Resp("approve_claim", u, 302, "success")
    /\ UNCHANGED <<zone_vars,
                   env, reading, stored, policy, payout, user_type, policies,
                   analyses, reqs>>

\* pay_claim
pay_claim(u, c, method) ==
    /\ c \in 1..Len(claims)
    /\ IF ~is_admin(u)
       THEN /\ response' = Resp("pay_claim", u, 403, "")
            /\ UNCHANGED claims
       ELSE IF method # "POST"
       THEN /\ response' = Resp("pay_claim", u, 302, "")
            /\ UNCHANGED claims
       ELSE /\ claims' = [claims EXCEPT ![c] =
                [@ EXCEPT !.paid_amount =
                              PyOr(claims[c].approved_amount,
                                   claims[c].claimed_amount),
                          !.status = "paid"]]
            /\ response' = Resp("pay_claim", u, 302, "success")
    /\ UNCHANGED <<zone_vars,
                   env, reading, stored, policy, payout, user_type, policies,
                   analyses, reqs>>

\* ------------------------------------------------------------------------
\* trigger_insurance_check (farms/views.py), one database query per step
\* ------------------------------------------------------------------------

Workers == {"w1", "w2"}

Idle == [pc |-> "idle", user |-> NoUser, analysis |-> 0, todo |-> <<>>,
         amount |-> 0, created |-> FALSE]

\* farm.policies.filter(status='active'), in the order the query gives.
ActivePolicies(farm) ==
    SelectSeq(<<"P1", "P2">>,
              LAMBDA p : /\ p \in DOMAIN policies
                         /\ policies[p].farm = farm
                         /\ policies[p].status = "active")

\* InsuranceClaim.objects.filter(policy=policy, triggered_by=analysis).exists()
ExistingClaim(p, a) ==
    \E i \in 1..Len(claims) :
        claims[i].policy = p /\ claims[i].triggered_by = a

\* The request r of worker w after the policy at the head of its loop is
\* done with: the next turn, or the JSON response ('claims_created').
NextPolicy(w, r) ==
    IF Len(r.todo) > 1
    THEN /\ reqs' = [reqs EXCEPT ![w] =
                        [r EXCEPT !.pc = "loop", !.todo = Tail(r.todo),
                                  !.amount = 0]]
         /\ UNCHANGED response
    ELSE /\ reqs' = [reqs EXCEPT ![w] = Idle]
         /\ response' = Resp("trigger_insurance_check", r.user, 200,
                             IF r.created THEN "claims_created" ELSE "")

\* The view up to the evaluation of the active policies.
TicBegin(w, u, method, a) ==
    /\ reqs[w].pc = "idle"
    /\ IF ~is_admin(u)
       THEN /\ response' = Resp("trigger_insurance_check", u, 403, "")
            /\ UNCHANGED reqs
       ELSE IF method # "POST"
       THEN /\ response' = Resp("trigger_insurance_check", u, 405, "")
            /\ UNCHANGED reqs
       ELSE IF a \notin 1..Len(analyses)
       THEN /\ response' = Resp("trigger_insurance_check", u, 500, "")
            /\ UNCHANGED reqs
       ELSE IF \/ ~analyses[a].insurance_triggered
               \/ ActivePolicies(analyses[a].farm) = <<>>
       THEN /\ response' = Resp("trigger_insurance_check", u, 200, "")
            /\ UNCHANGED reqs
       ELSE /\ reqs' = [reqs EXCEPT ![w] =
                  [pc |-> "loop", user |-> u, analysis |-> a,
                   todo |-> ActivePolicies(analyses[a].farm), amount |-> 0,
                   created |-> FALSE]]
            /\ UNCHANGED response
    /\ UNCHANGED <<zone_vars,
                   env, reading, stored, policy, payout, user_type, policies,
                   analyses, claims>>

\* One turn of the loop up to "if payout_amount > 0": the exists() query and
\* the payout calculation.
TicCheck(w) ==
    /\ reqs[w].pc = "loop"
    /\ LET r == reqs[w]
           p == Head(r.todo)
           res == calculate_payout(policies[p], <<analyses[r.analysis]>>)
       IN  IF ExistingClaim(p, r.analysis)
           THEN NextPolicy(w, r)
           ELSE IF res.raised
           THEN /\ reqs' = [reqs EXCEPT ![w] = Idle]
                /\ response' = Resp("trigger_insurance_check", r.user, 500, "")
           ELSE IF res.amount > 0
           THEN /\ reqs' = [reqs EXCEPT ![w] =
                              [r EXCEPT !.pc = "create",
                                        !.amount = res.amount]]
                /\ UNCHANGED response
           ELSE NextPolicy(w, r)
    /\ UNCHANGED <<zone_vars,
                   env, reading, stored, policy, payout, user_type, policies,
                   analyses, claims>>

\* claim.save() of the claim built for the policy at the head of the loop.
TicCreate(w) ==
    /\ reqs[w].pc = "create"
    /\ LET r == reqs[w]
       IN  /\ claims' = Append(claims,
                [policy |-> Head(r.todo), triggered_by |-> r.analysis,
                 status |-> "submitted", claimed_amount |-> r.amount,
                 approved_amount |-> None, paid_amount |-> None,
                 submitted_by |-> r.user, reviewed_by |-> NoUser,
                 reviewed_date |-> None, review_notes |-> ""])
           /\ NextPolicy(w, [r EXCEPT !.created = TRUE])
    /\ UNCHANGED <<zone_vars,
                   env, reading, stored, policy, payout, user_type, policies,
                   analyses>>

\* ------------------------------------------------------------------------
\* Specification Spec: the life of claims on one policy
\* ------------------------------------------------------------------------

\* The most claims the table holds.
MaxClaims == 1

ApprovedAmountInputs ==
    {[kind |-> "number", value |-> 0, notes |-> ""],
     [kind |-> "number", value |-> 30000, notes |-> "checked"],
     [kind |-> "text", value |-> 0, notes |-> "checked"],
     [kind |-> "missing", value |-> 0, notes |-> ""]}
Methods == {"GET", "POST"}

\* The posted status and whether 'submit' is among the posted fields; the
\* latter is only looked at for the status 'draft'.
UpdateInputs ==
    {x \in CLAIM_STATUS \X BOOLEAN : x[1] = "draft" \/ ~x[2]}

\* Method and posted amount of approve_claim; the amount is only looked at
\* in a POST.
ApproveInputs ==
    {x \in Methods \X ApprovedAmountInputs :
        x[1] = "POST" \/ x[2].kind = "missing"}

Init ==
    /\ env = DefaultEnv
    /\ reading = ReadingA1
    /\ stored = FALSE
    /\ policy = NoPolicy
    /\ payout = NoCall
    /\ user_type = [u \in Users |-> IF u = "ua" THEN "admin" ELSE "farmer"]
    /\ policies = [p \in {"P1"} |-> PolicyP1]
    /\ analyses = <<ReadingA1>>
    /\ claims = <<>>
    /\ reqs = [w \in Workers |-> Idle]
    /\ response = NoResponse
    /\ ZoneIdle

Next ==
    \/ \E t \in {"farmer", "insurance_agent"} : SetUserType("ub", t)
    \/ \E u \in Users, p \in DOMAIN policies, a \in 1..Len(analyses),
          st \in CLAIM_STATUS :
          /\ ClaimCreateView(u, p, a, st, PrefilledAmount(p, a))
          /\ Len(claims') <= MaxClaims
    \/ \E u \in Users, c \in 1..Len(claims), x \in UpdateInputs :
          ClaimUpdateView(u, c, x[1], claims[c].claimed_amount, x[2])
    \/ \E u \in Users, c \in 1..Len(claims), x \in ApproveInputs :
          approve_claim(u, c, x[1], x[2])
    \/ \E u \in Users, c \in 1..Len(claims), method \in Methods :
          pay_claim(u, c, method)
    \/ \E u \in Users, method \in Methods, a \in 0..Len(analyses) :
          TicBegin("w1", u, method, a)
    \/ TicCheck("w1")
    \/ TicCreate("w1") /\ Len(claims') <= MaxClaims

Spec == Init /\ [][Next]_vars

\* ------------------------------------------------------------------------
\* Properties of the payout calculator (SpecPayout)
\* ------------------------------------------------------------------------

\* The policies the payout range is stated for.
ValidPolicy(p) ==
    /\ p.payout_rate >= 0 /\ p.payout_rate <= 100
    /\ p.deductible >= 0
    /\ p.max_payout >= 0

\* C1: for every policy with payout_rate in [0,1], deductible >= 0 and
\* max_payout >= 0 and every analysis, calculate_payout returns an amount
\* p with 0 <= p <= max_payout.
C1_PayoutWithinCap ==
    (payout # NoCall /\ ValidPolicy(policy)) =>
        /\ ~payout.raised
        /\ 0 <= payout.amount
        /\ payout.amount <= 100 * policy.max_payout

\* ------------------------------------------------------------------------
\* Properties of the risk scorer (SpecScore)
\* ------------------------------------------------------------------------

AllNull(a) ==
    a.ndvi = None /\ a.rainfall_mm = None /\ a.ndmi = None /\ a.bsi = None

\* C2: whatever the four inputs, null or a number, the risk score is an
\* integer in 0..100, and it is 0 when all four inputs are null.
C2_ScoreInRange ==
    stored =>
        /\ reading.risk_score \in 0..100
        /\ AllNull(reading) => reading.risk_score = 0

C2_Witness ==
    stored /\ reading.risk_score = 100

\* The four contributions as the scoring table gives them; a null input
\* gives 0.
TableNdvi(x) ==
    CASE x = None -> 0
      [] x # None /\ x < 20 -> 40
      [] x >= 20 /\ x < 30 -> 30
      [] x >= 30 /\ x < 40 -> 20
      [] x >= 40 /\ x < 60 -> 10
      [] x >= 60 -> 0

TableRainfall(x) ==
    CASE x = None -> 0
      [] x # None /\ x < 25 -> 30
      [] x >= 25 /\ x < 50 -> 20
      [] x >= 50 /\ x < 75 -> 10
      [] x >= 75 -> 0

TableNdmi(x) ==
    CASE x = None -> 0
      [] x # None /\ x < 0 -> 20
      [] x >= 0 /\ x < 20 -> 10
      [] x >= 20 -> 0

TableBsi(x) ==
    CASE x = None -> 0
      [] x # None /\ x <= 30 -> 0
      [] x > 30 -> 10

\* C3: the risk score is the sum of the four independent contributions of
\* the scoring table, a null input contributing 0, capped at 100.
C3_ScoreIsSumOfContributions ==
    stored =>
        LET sum == TableNdvi(reading.ndvi) + TableRainfall(reading.rainfall_mm)
                     + TableNdmi(reading.ndmi) + TableBsi(reading.bsi)
        IN  reading.risk_score = IF sum > 100 THEN 100 ELSE sum

\* A stored reading with a null rainfall next to non-null inputs.
C3_Witness ==
    /\ stored
    /\ reading.rainfall_mm = None
    /\ reading.ndvi = 29 /\ reading.ndmi = 19 /\ reading.bsi = 31
    /\ reading.risk_score = 50

\* C4: after save the risk level is 'high' exactly for a score >= 70,
\* 'moderate' exactly for 40 <= score < 70 and 'low' exactly for a score
\* below 40; ndvi 0.15, rainfall 20, ndmi -0.1, bsi 0.4 scores 100, 'high'.
C4_LevelFollowsScore ==
    stored =>
        /\ reading.drought_risk_level = "high" <=> reading.risk_score >= 70
        /\ reading.drought_risk_level = "moderate" <=>
              (reading.risk_score >= 40 /\ reading.risk_score < 70)
        /\ reading.drought_risk_level = "low" <=> reading.risk_score < 40
        /\ (reading.ndvi = 15 /\ reading.rainfall_mm = 20
              /\ reading.ndmi = -10 /\ reading.bsi = 40) =>
              (reading.risk_score = 100
                 /\ reading.drought_risk_level = "high")

C4_Witness ==
    /\ stored
    /\ reading.ndvi = 15 /\ reading.rainfall_mm = 20
    /\ reading.ndmi = -10 /\ reading.bsi = 40
    /\ reading.drought_risk_level = "high"

\* The three trigger conditions of a reading.
AnyTriggerCondition(a, e) ==
    \/ a.ndvi # None /\ a.ndvi < e.NDVI_THRESHOLD_SEVERE
    \/ a.rainfall_mm # None /\ a.rainfall_mm < e.RAINFALL_THRESHOLD_MM
    \/ a.drought_risk_level = "moderate"
    \/ a.drought_risk_level = "high"

\* C5: insurance_triggered is true exactly when the NDVI is present and
\* below its threshold, or the rainfall is present and below its threshold,
\* or the risk level is 'moderate' or 'high'; otherwise it is false and
\* trigger_reason is empty; ndvi 0.65, rainfall 120, ndmi 0.3, bsi 0.1
\* scores 0, 'low', not triggered.
C5_TriggerIffCondition ==
    stored =>
        /\ reading.insurance_triggered <=> AnyTriggerCondition(reading, env)
        /\ ~AnyTriggerCondition(reading, env) =>
              (~reading.insurance_triggered /\ reading.trigger_reason = <<>>)
        /\ (reading.ndvi = 65 /\ reading.rainfall_mm = 120
              /\ reading.ndmi = 30 /\ reading.bsi = 10) =>
              /\ reading.risk_score = 0
              /\ reading.drought_risk_level = "low"
              /\ ~reading.insurance_triggered

C5_Witness ==
    /\ stored
    /\ env = DefaultEnv
    /\ reading.ndvi = 65 /\ reading.rainfall_mm = 120
    /\ reading.ndmi = 30 /\ reading.bsi = 10
    /\ ~reading.insurance_triggered
    /\ reading.trigger_reason = <<>>

\* ------------------------------------------------------------------------
\* Properties of the claim views (Spec)
\* ------------------------------------------------------------------------

\* The edges of the claim state machine:
\* draft -> submitted -> under_review -> {approved, rejected} -> paid -> closed
Edges ==
    {<<"draft", "submitted">>, <<"submitted", "under_review">>,
     <<"under_review", "approved">>, <<"under_review", "rejected">>,
     <<"approved", "paid">>, <<"rejected", "paid">>, <<"paid", "closed">>}

\* The claims whose status a step changes.
StatusChanged ==
    {i \in 1..Len(claims) : claims'[i].status # claims[i].status}

\* C6: every change of a claim's status made by any operation follows an
\* edge of the state machine; a claim becomes 'approved' only from
\* 'under_review' and 'paid' only from 'approved' or 'rejected'.
C6_StatusFollowsEdges ==
    [][\A i \in StatusChanged :
          <<claims[i].status, claims'[i].status>> \in Edges]_vars

C8_EditableOnlyDraftOrSubmitted ==
    /\ [](\A c \in 1..Len(claims), u \in Users :
             /\ can_be_edited(claims[c], u) =>
                   /\ claims[c].status \in {"draft", "submitted"}
                   /\ is_admin(u) \/ u = claims[c].submitted_by
             /\ claims[c].status \notin {"draft", "submitted"} =>
                   ~can_be_edited(claims[c], u))
    /\ [][\A c \in 1..Len(claims), u \in Users, x \in UpdateInputs :
             (/\ claims[c].status \notin {"draft", "submitted"}
              /\ ClaimUpdateView(u, c, x[1], claims[c].claimed_amount, x[2]))
                 => response'.code = 403 /\ claims' = claims]_vars

\* An administrator was refused the edit of an approved claim.
C8_Witness ==
    /\ response.op = "ClaimUpdateView"
    /\ response.code = 403
    /\ is_admin(response.user)
    /\ \E c \in 1..Len(claims) : claims[c].status = "approved"

\* ------------------------------------------------------------------------
\* Specification SpecTrigger: concurrent trigger checks and claim
\* submissions on two policies of one farm
\* ------------------------------------------------------------------------

\* The most claims the table holds.
MaxTriggerClaims == 2

InitTrigger ==
    /\ env = DefaultEnv
    /\ reading = ReadingA1
    /\ stored = FALSE
    /\ policy = NoPolicy
    /\ payout = NoCall
    /\ user_type = [u \in Users |->
                       IF u = "ua" THEN "admin" ELSE "insurance_agent"]
    /\ policies = [p \in {"P1", "P2"} |->
                      IF p = "P1" THEN PolicyP1 ELSE PolicyP2]
    /\ analyses = <<ReadingA1, ReadingA2>>
    /\ claims = <<>>
    /\ reqs = [w \in Workers |-> Idle]
    /\ response = NoResponse
    /\ ZoneIdle

NextTrigger ==
    \/ \E w \in Workers, u \in Users, method \in Methods,
          a \in 0..Len(analyses) :
          TicBegin(w, u, method, a)
    \/ \E w \in Workers : TicCheck(w)
    \/ \E w \in Workers :
          TicCreate(w) /\ Len(claims') <= MaxTriggerClaims
    \/ \E u \in Users, p \in DOMAIN policies, a \in 1..Len(analyses) :
          /\ ClaimCreateView(u, p, a, "draft", PrefilledAmount(p, a))
          /\ Len(claims') <= MaxTriggerClaims

SpecTrigger == InitTrigger /\ [][NextTrigger]_vars

\* C9: after any interleaving of trigger_insurance_check requests and
\* ClaimCreateView submissions there is at most one claim per pair of
\* policy and triggering analysis.
C9_OneClaimPerPolicyAndAnalysis ==
    \A i, j \in 1..Len(claims) :
        (/\ claims[i].policy = claims[j].policy
         /\ claims[i].triggered_by = claims[j].triggered_by) => i = j

\* ------------------------------------------------------------------------
\* Analysis runs (farms/views.py): run_single_analysis, run_batch_analysis
\* ------------------------------------------------------------------------

\* The farms of the database and their farmers; uc is a farmer who sends no
\* request.
Farms == {"F1", "F2"}
FarmFarmer == [f \in Farms |-> IF f = "F1" THEN "ub" ELSE "uc"]

\* The farm ids a request or the Earth Engine asset may name.
FarmIds == Farms \cup {"unknown"}

\* The (year, month) pairs of the runs.
Periods == {1, 2}

\* WorkingGEEAnalyzer: the indices of a month, dry or wet.
GeeReadings ==
    {[ndvi |-> 15, rainfall_mm |-> 20, ndmi |-> -10, bsi |-> 40],
     [ndvi |-> 65, rainfall_mm |-> 120, ndmi |-> 30, bsi |-> 10]}

\* analyze_all_farms: one result per feature of the asset, in its order.
GeeFarmLists == {<<>>, <<"F1", "F2">>, <<"unknown", "F2", "F1">>}
GeeBatchResults ==
    {[i \in 1..Len(l) |-> [farm_id |-> l[i], indices |-> v]] :
        l \in GeeFarmLists, v \in GeeReadings}

\* unique_together = ['farm', 'year', 'month']: the stored reading of the
\* key, if any.
HasReading(rows, farm, period) ==
    \E i \in 1..Len(rows) : rows[i].farm = farm /\ rows[i].period = period

\* SatelliteAnalysis(farm=..., year=..., month=..., ndvi=..., ...) followed
\* by save() up to the INSERT.
BuiltAnalysis(farm, period, v) ==
    save(NewAnalysis(farm, period, v.ndvi, v.rainfall_mm, v.ndmi, v.bsi), env)

\* run_single_analysis; result is <<>> for None or <<indices>>.
run_single_analysis(u, method, farm_id, period, result) ==
    /\ IF method # "POST"
       THEN /\ response' = Resp("run_single_analysis", u, 405, "")
            /\ UNCHANGED analyses
       ELSE IF farm_id \notin Farms
       THEN /\ response' = Resp("run_single_analysis", u, 500, "error")
            /\ UNCHANGED analyses
       ELSE IF ~(is_admin(u) \/ FarmFarmer[farm_id] = u)
       THEN /\ response' = Resp("run_single_analysis", u, 500, "error")
            /\ UNCHANGED analyses
       ELSE IF result = <<>>
       THEN /\ response' = Resp("run_single_analysis", u, 200, "error")
            /\ UNCHANGED analyses
       ELSE IF HasReading(analyses, farm_id, period)
       THEN /\ response' = Resp("run_single_analysis", u, 500, "error")
            /\ UNCHANGED analyses
       ELSE /\ analyses' = Append(analyses,
                                  BuiltAnalysis(farm_id, period, result[1]))
            /\ response' = Resp("run_single_analysis", u, 200, "success")
    /\ UNCHANGED <<zone_vars,
                   env, reading, stored, policy, payout, user_type, policies,
                   claims, reqs>>

\* The entry saved_analyses gets for a stored reading.
SavedEntry(a) ==
    [farm_id |-> a.farm, ndvi |-> a.ndvi, risk_level |-> a.drought_risk_level]

\* The loop of run_batch_analysis over the results: the rows of the table
\* and saved_analyses when it ends, and whether an exception other than
\* Farm.DoesNotExist ended it.
RECURSIVE BatchSave(_, _, _, _)
BatchSave(rows, saved, results, period) ==
    IF results = <<>>
    THEN [rows |-> rows, saved |-> saved, raised |-> FALSE]
    ELSE LET r == Head(results)
             a == BuiltAnalysis(r.farm_id, period, r.indices)
         IN  IF r.farm_id \notin Farms
             THEN BatchSave(rows, saved, Tail(results), period)
             ELSE IF HasReading(rows, r.farm_id, period)
             THEN [rows |-> rows, saved |-> saved, raised |-> TRUE]
             ELSE BatchSave(Append(rows, a), Append(saved, SavedEntry(a)),
                            Tail(results), period)

\* run_batch_analysis; farm_ids tells whether the request names any farm.
run_batch_analysis(u, method, farm_ids, period, results) ==
    /\ IF ~is_admin(u)
       THEN /\ response' = Resp("run_batch_analysis", u, 403, "")
            /\ UNCHANGED analyses
       ELSE IF method # "POST"
       THEN /\ response' = Resp("run_batch_analysis", u, 405, "")
            /\ UNCHANGED analyses
       ELSE IF ~farm_ids
       THEN /\ response' = Resp("run_batch_analysis", u, 400, "error")
            /\ UNCHANGED analyses
       ELSE LET b == BatchSave(analyses, <<>>, results, period)
            IN  /\ analyses' = b.rows
                /\ response' =
                       IF b.raised
                       THEN Resp("run_batch_analysis", u, 500, "error")
                       ELSE [Resp("run_batch_analysis", u, 200, "success")
                                EXCEPT !.results = b.saved]
    /\ UNCHANGED <<zone_vars,
                   env, reading, stored, policy, payout, user_type, policies,
                   claims, reqs>>

\* ------------------------------------------------------------------------
\* Specification SpecAnalysis: analysis runs on two farms
\* ------------------------------------------------------------------------

InitAnalysis ==
    /\ env = DefaultEnv
    /\ reading = ReadingA1
    /\ stored = FALSE
    /\ policy = NoPolicy
    /\ payout = NoCall
    /\ user_type = [u \in Users |-> IF u = "ua" THEN "admin" ELSE "farmer"]
    /\ policies = [p \in {"P1"} |-> PolicyP1]
    /\ analyses = <<>>
    /\ claims = <<>>
    /\ reqs = [w \in Workers |-> Idle]
    /\ response = NoResponse
    /\ ZoneIdle

NextAnalysis ==
    \/ \E u \in Users, method \in Methods, farm_id \in FarmIds,
          period \in Periods,
          result \in {<<>>} \cup {<<v>> : v \in GeeReadings} :
          run_single_analysis(u, method, farm_id, period, result)
    \/ \E u \in Users, method \in Methods, farm_ids \in BOOLEAN,
          period \in Periods, results \in GeeBatchResults :
          run_batch_analysis(u, method, farm_ids, period, results)

SpecAnalysis == InitAnalysis /\ [][NextAnalysis]_vars

\* C10: there is at most one stored reading per farm and period, and a run
\* for a farm and period that already has a stored reading succeeds and
\* leaves the values of the new run stored for it.
C10_OnePerPeriodAndRerunReplaces ==
    /\ [](\A i, j \in 1..Len(analyses) :
             (/\ analyses[i].farm = analyses[j].farm
              /\ analyses[i].period = analyses[j].period) => i = j)
    /\ [][/\ \A u \in Users, f \in Farms, p \in Periods, v \in GeeReadings :
               (/\ is_admin(u) \/ FarmFarmer[f] = u
                /\ HasReading(analyses, f, p)
                /\ run_single_analysis(u, "POST", f, p, <<v>>))
                   => /\ response'.code = 200
                      /\ response'.message = "success"
                      /\ \E i \in 1..Len(analyses') :
                            analyses'[i] = BuiltAnalysis(f, p, v)
          /\ \A u \in Users, p \in Periods, results \in GeeBatchResults :
               (/\ is_admin(u)
                /\ run_batch_analysis(u, "POST", TRUE, p, results))
                   => /\ response'.code = 200
                      /\ \A k \in 1..Len(results) :
                            results[k].farm_id \in Farms =>
                               \E i \in 1..Len(analyses') :
                                  analyses'[i] =
                                     BuiltAnalysis(results[k].farm_id, p,
                                                   results[k].indices)
         ]_vars

\* The results of a batch whose farm cannot be given a reading for the
\* period: the farm is unknown, or storing its reading fails.
FailedInBatch(results, p) ==
    {k \in 1..Len(results) :
        \/ results[k].farm_id \notin Farms
        \/ HasReading(analyses, results[k].farm_id, p)}

\* C11: in a batch a failure for one farm costs that farm's assessment
\* only: every other farm of the batch has its reading stored, and the
\* failure is not raised out of the batch.
C11_BatchToleratesFailures ==
    [][\A u \in Users, p \in Periods, results \in GeeBatchResults :
          (/\ is_admin(u)
           /\ run_batch_analysis(u, "POST", TRUE, p, results))
              => /\ response'.code = 200
                 /\ \A k \in 1..Len(results) \ FailedInBatch(results, p) :
                       HasReading(analyses', results[k].farm_id, p)]_vars

\* C12: the result of a batch has an entry with the farm id and the reason
\* of the failure for every farm of the batch that failed.
C12_FailuresReportedPerFarm ==
    [][\A u \in Users, p \in Periods, results \in GeeBatchResults :
          (/\ is_admin(u)
           /\ run_batch_analysis(u, "POST", TRUE, p, results))
              => \A k \in FailedInBatch(results, p) :
                    \E i \in 1..Len(response'.results) :
                       /\ response'.results[i].farm_id = results[k].farm_id
                       /\ "error" \in DOMAIN response'.results[i]]_vars

\* ------------------------------------------------------------------------
\* Further properties of the payout calculator (SpecPayout)
\* ------------------------------------------------------------------------

\* C13: with a trigger threshold of 0 calculate_payout raises nothing and
\* returns an amount in [0, max_payout], whatever ndvi and rainfall_mm are.
C13_ZeroTriggerGuarded ==
    (/\ payout # NoCall
     /\ ValidPolicy(policy)
     /\ policy.ndvi_trigger = 0 \/ policy.rainfall_trigger = 0) =>
        /\ ~payout.raised
        /\ payout.amount \in 0..(100 * policy.max_payout)

\* Scenario 4: the policy 100000 / 0.3 / 50 mm / 0.7 / 1000 / 50000 with the
\* default risk level trigger, and the stored reading ndvi 0.15, rainfall
\* 20 mm, ndmi and bsi absent.
Scenario4 ==
    /\ stored
    /\ policy = [sum_insured |-> 100000, ndvi_trigger |-> 30,
                 rainfall_trigger |-> 50, risk_level_trigger |-> "moderate",
                 payout_rate |-> 70, deductible |-> 1000,
                 max_payout |-> 50000]
    /\ reading.ndvi = 15 /\ reading.rainfall_mm = 20
    /\ reading.ndmi = None /\ reading.bsi = None

\* C16 as stated: for scenario 4 calculate_payout returns 29800.00.
C16_Scenario4Pays29800 ==
    (Scenario4 /\ payout # NoCall) => payout = Returned(2980000)

\* C16: for scenario 4 calculate_payout returns 43800.00: the reading's
\* risk category is high, so the risk level contribution of 20000 is added
\* to the 20000 of NDVI and the 24000 of rainfall before rate and deductible.
C16_Scenario4Pays43800 ==
    (Scenario4 /\ payout # NoCall) => payout = Returned(4380000)

C16_Witness ==
    /\ Scenario4
    /\ reading.drought_risk_level = "high"
    /\ payout = Returned(4380000)

\* ------------------------------------------------------------------------
\* Further properties of the risk scorer (SpecScore)
\* ------------------------------------------------------------------------

NoneNull(a) ==
    a.ndvi # None /\ a.rainfall_mm # None /\ a.ndmi # None /\ a.bsi # None

\* C17: with all four inputs present and the other three held fixed, the
\* risk score does not increase when ndvi, ndmi or rainfall_mm increases.
C17_ScoreMonotone ==
    (stored /\ NoneNull(reading)) =>
        /\ \A n \in NdviValues \ {None} :
              n >= reading.ndvi =>
                 calculate_risk_score([reading EXCEPT !.ndvi = n])
                    <= reading.risk_score
        /\ \A m \in NdmiValues \ {None} :
              m >= reading.ndmi =>
                 calculate_risk_score([reading EXCEPT !.ndmi = m])
                    <= reading.risk_score
        /\ \A r \in RainfallValues \ {None} :
              r >= reading.rainfall_mm =>
                 calculate_risk_score([reading EXCEPT !.rainfall_mm = r])
                    <= reading.risk_score

\* A stored reading for which a higher ndvi gives a strictly lower score.
C17_Witness ==
    /\ stored /\ NoneNull(reading)
    /\ reading.ndvi = 19
    /\ calculate_risk_score([reading EXCEPT !.ndvi = 20]) < reading.risk_score

\* The four inputs of a reading.
Inputs(a) == <<a.ndvi, a.rainfall_mm, a.ndmi, a.bsi>>

\* C19: the derived fields of a stored reading are what the scorer gives
\* for its stored inputs, and they change only together with the inputs.
C19_DerivedFollowInputs ==
    /\ [](stored =>
            /\ reading.risk_score = calculate_risk_score(reading)
            /\ reading.drought_risk_level = RiskLevelOf(reading.risk_score)
            /\ reading.insurance_triggered = (TriggerList(reading, env) # <<>>)
            /\ reading.trigger_reason = TriggerList(reading, env))
    /\ [][(stored /\ Inputs(reading') = Inputs(reading))
             => reading' = reading]_vars

\* A stored reading whose level and reason come from its rainfall alone.
C19_Witness ==
    /\ stored
    /\ reading.ndvi = None /\ reading.rainfall_mm = 20
    /\ reading.ndmi = 30 /\ reading.bsi = None
    /\ reading.risk_score = 30
    /\ reading.insurance_triggered

\* ------------------------------------------------------------------------
\* Further properties of the trigger check (SpecTrigger)
\* ------------------------------------------------------------------------

\* C20: a policy outside its coverage window is not active, and
\* trigger_insurance_check creates no claim against it, whatever its
\* status.
C20_NoClaimOutsideCoverage ==
    /\ [](\A p \in DOMAIN policies :
             ~policies[p].in_coverage => ~is_active(policies[p]))
    /\ [][\A w \in Workers :
             TicCreate(w) => policies[Head(reqs[w].todo)].in_coverage]_vars

\* ------------------------------------------------------------------------
\* Rainfall zone model: feature calculators
\* (CLASSIFICATION_MODEL_TRAINER.py, rainfall_zone_model/predictor.py)
\* ------------------------------------------------------------------------

\* A float: an exact fraction, the square root of a positive fraction, or
\* NaN.
Num(n, d) == [kind |-> "num", v |-> Frac(n, d)]
NaN == [kind |-> "nan", v |-> <<0, 1>>]
SqrtOf(f) == IF f[1] = 0 THEN Num(0, 1) ELSE [kind |-> "sqrt", v |-> f]

RECURSIVE SeqSum(_)
SeqSum(s) == IF s = <<>> THEN 0 ELSE Head(s) + SeqSum(Tail(s))

RECURSIVE SeqSumSq(_)
SeqSumSq(s) == IF s = <<>> THEN 0 ELSE Head(s) * Head(s) + SeqSumSq(Tail(s))

RECURSIVE SeqMax(_)
SeqMax(s) ==
    IF Len(s) = 1 THEN Head(s) ELSE Max(Head(s), SeqMax(Tail(s)))

\* The standard deviation with ddof delta degrees of freedom: NaN when
\* nothing is left to divide by.
Std(s, ddof) ==
    LET n == Len(s)
    IN  IF n - ddof <= 0 THEN NaN
        ELSE SqrtOf(Frac(n * SeqSumSq(s) - SeqSum(s) * SeqSum(s),
                         n * (n - ddof)))

\* std / mean for a positive mean.
StdOverMean(s, ddof) ==
    LET n == Len(s)
        t == SeqSum(s)
    IN  IF n - ddof <= 0 THEN NaN
        ELSE SqrtOf(Frac((n * SeqSumSq(s) - t * t) * n, (n - ddof) * t * t))

\* The values of the series that are > 0.
RainyDays(s) == SelectSeq(s, LAMBDA x : x > 0)

\* The k-th smallest value of a series.
KthSmallest(s, k) ==
    CHOOSE v \in {s[i] : i \in 1..Len(s)} :
        /\ Cardinality({i \in 1..Len(s) : s[i] < v}) < k
        /\ Cardinality({i \in 1..Len(s) : s[i] <= v}) >= k

\* Series.median of pandas.
Median(s) ==
    LET n == Len(s)
    IN  IF n % 2 = 1 THEN Num(KthSmallest(s, (n + 1) \div 2), 1)
        ELSE Num(KthSmallest(s, n \div 2) + KthSmallest(s, n \div 2 + 1), 2)

\* A dry-spell loop that forgets the spell still open at the end.
RECURSIVE DrySpellScan_notrailing(_, _, _)
DrySpellScan_notrailing(s, current, spells) ==
    IF s = <<>>
    THEN spells
    ELSE IF Head(s) = 0
    THEN DrySpellScan_notrailing(Tail(s), current + 1, spells)
    ELSE DrySpellScan_notrailing(Tail(s), 0,
             IF current > 0 THEN Append(spells, current) ELSE spells)

\* A dry-spell loop that closes a spell at a rainy value but goes on
\* counting from its length.
RECURSIVE DrySpellScan_noreset(_, _, _)
DrySpellScan_noreset(s, current, spells) ==
    IF s = <<>>
    THEN IF current > 0 THEN Append(spells, current) ELSE spells
    ELSE IF Head(s) = 0
    THEN DrySpellScan_noreset(Tail(s), current + 1, spells)
    ELSE DrySpellScan_noreset(Tail(s), current,
             IF current > 0 THEN Append(spells, current) ELSE spells)

\* The dry-spell loop of both calculators: dry_spells after the values of
\* s, started with the spell length current and the list spells.
RECURSIVE DrySpellScan(_, _, _)
DrySpellScan(s, current, spells) ==
    IF s = <<>>
    THEN IF current > 0 THEN Append(spells, current) ELSE spells
    ELSE IF Head(s) = 0
    THEN DrySpellScan(Tail(s), current + 1, spells)
    ELSE DrySpellScan(Tail(s), 0,
                      IF current > 0 THEN Append(spells, current) ELSE spells)

\* RainfallClassificationModel._calculate_location_features for the rows
\* of one location, in the order of the file.
_calculate_location_features(group) ==
    LET n == Len(group)
        total == SeqSum(group)
        rainy_days == RainyDays(group)
        dry_spells == DrySpellScan(group, 0, <<>>)
    IN  [total_rainfall |-> Num(total, 1),
         mean_rainfall |-> Num(total, n),
         median_rainfall |-> Median(group),
         std_rainfall |-> Std(group, 1),
         cv_rainfall |-> IF total > 0 THEN StdOverMean(group, 1)
                         ELSE Num(0, 1),
         rainy_days_count |-> Num(Len(rainy_days), 1),
         rainy_days_percent |-> IF n > 0 THEN Num(Len(rainy_days) * 100, n)
                                ELSE Num(0, 1),
         mean_rainy_day_intensity |->
             IF Len(rainy_days) > 0
             THEN Num(SeqSum(rainy_days), Len(rainy_days)) ELSE Num(0, 1),
         max_dry_spell |-> IF dry_spells # <<>>
                           THEN Num(SeqMax(dry_spells), 1) ELSE Num(0, 1),
         avg_dry_spell |-> IF dry_spells # <<>>
                           THEN Num(SeqSum(dry_spells), Len(dry_spells))
                           ELSE Num(0, 1),
         dry_spell_frequency |-> IF n > 0 THEN Num(Len(dry_spells), n)
                                 ELSE Num(0, 1)]

\* The key f'month_{i}_mean'.
MonthMean(i) == "month_" \o ToString(i) \o "_mean"

\* RainfallZonePredictor._calculate_features
_calculate_features(monthly_rainfall) ==
    LET n == Len(monthly_rainfall)
        total == SeqSum(monthly_rainfall)
        rainy_days == RainyDays(monthly_rainfall)
        dry_spells == DrySpellScan(monthly_rainfall, 0, <<>>)
    IN  [total_rainfall |-> Num(total, 1),
         mean_rainfall |-> Num(total, n),
         std_rainfall |-> Std(monthly_rainfall, 0),
         cv_rainfall |-> IF total > 0 THEN StdOverMean(monthly_rainfall, 0)
                         ELSE Num(0, 1),
         rainy_days_percent |-> Num(Len(rainy_days) * 100, 12),
         max_dry_spell |-> IF dry_spells # <<>>
                           THEN Num(SeqMax(dry_spells), 1) ELSE Num(0, 1)]
        @@ [k \in {MonthMean(i) : i \in 1..n} |->
               Num(monthly_rainfall[
                       CHOOSE i \in 1..n : MonthMean(i) = k], 1)]

\* The key f'month_{i}_std'.
MonthStd(i) == "month_" \o ToString(i) \o "_std"

\* The 'month' column of the rows of one location: the rows are
\* consecutive months, the first one January.
MonthOf(i) == ((i - 1) % 12) + 1

\* "(x-1)//3 + 1" of _calculate_quarterly_features.
QuarterOf(month) == (month - 1) \div 3 + 1

\* get_season of _calculate_seasonal_features.
get_season(month) ==
    IF month \in {12, 1, 2} THEN "DJF"
    ELSE IF month \in {3, 4, 5} THEN "MAM"
    ELSE IF month \in {6, 7, 8} THEN "JJA"
    ELSE "SON"

\* The rainfall_mm values of the rows whose position is in rows, in the
\* order of the file.
RowsWhere(s, rows) ==
    LET F[i \in 0..Len(s)] ==
            IF i = 0 THEN <<>>
            ELSE IF i \in rows THEN Append(F[i - 1], s[i]) ELSE F[i - 1]
    IN  F[Len(s)]

\* "x.mean() if len(x) > 0 else 0", and the same for std and sum.
MeanOrZero(data) ==
    IF Len(data) > 0 THEN Num(SeqSum(data), Len(data)) ELSE Num(0, 1)
StdOrZero(data) == IF Len(data) > 0 THEN Std(data, 1) ELSE Num(0, 1)
SumOrZero(data) == IF Len(data) > 0 THEN Num(SeqSum(data), 1) ELSE Num(0, 1)

\* The dict with the given <<key, value>> pairs.
MakeDict(pairs) ==
    [k \in {p[1] : p \in pairs} |-> (CHOOSE p \in pairs : p[1] = k)[2]]

\* RainfallClassificationModel._calculate_monthly_features, the row of one
\* location.
_calculate_monthly_features(s) ==
    MakeDict(UNION {
        LET month_data == RowsWhere(s, {i \in 1..Len(s) : MonthOf(i) = month})
        IN  {<<MonthMean(month), MeanOrZero(month_data)>>,
             <<MonthStd(month), StdOrZero(month_data)>>} : month \in 1..12})

\* RainfallClassificationModel._calculate_quarterly_features, the row of
\* one location.
_calculate_quarterly_features(s) ==
    MakeDict(UNION {
        LET quarter_data ==
                RowsWhere(s, {i \in 1..Len(s) : QuarterOf(MonthOf(i)) = q})
        IN  {<<"quarter_Q" \o ToString(q) \o "_mean",
               MeanOrZero(quarter_data)>>,
             <<"quarter_Q" \o ToString(q) \o "_sum",
               SumOrZero(quarter_data)>>} : q \in 1..4})

\* RainfallClassificationModel._calculate_seasonal_features, the row of
\* one location.
_calculate_seasonal_features(s) ==
    MakeDict(UNION {
        LET season_data ==
                RowsWhere(s, {i \in 1..Len(s) :
                                 get_season(MonthOf(i)) = season})
        IN  {<<"season_" \o season \o "_mean", MeanOrZero(season_data)>>,
             <<"season_" \o season \o "_sum", SumOrZero(season_data)>>} :
        season \in {"DJF", "MAM", "JJA", "SON"}})

\* RainfallClassificationModel.prepare_features, the row of one location:
\* the four feature groups joined, NaN replaced by 0.
prepare_features(s) ==
    LET all_features ==
            _calculate_location_features(s)
            @@ _calculate_monthly_features(s)
            @@ _calculate_quarterly_features(s)
            @@ _calculate_seasonal_features(s)
    IN  [k \in DOMAIN all_features |->
            IF all_features[k] = NaN THEN Num(0, 1) ELSE all_features[k]]

\* The mean of a column over the rows of a cluster.
ColumnMean(cluster_data, col) ==
    LET F[i \in 0..Len(cluster_data)] ==
            IF i = 0 THEN <<0, 1>>
            ELSE FracAdd(F[i - 1], cluster_data[i][col].v)
    IN  FracMul(F[Len(cluster_data)], Frac(1, Len(cluster_data)))

\* RainfallClassificationModel._get_typical_months
_get_typical_months(cluster_data) ==
    [month \in 1..12 |->
        LET col == MonthMean(month)
            month_avg == ColumnMean(cluster_data, col)
        IN  IF FracLess(FracMul(ColumnMean(cluster_data, col), Frac(12, 10)),
                        month_avg)
            THEN "Wet"
            ELSE IF FracLess(month_avg,
                     FracMul(ColumnMean(cluster_data, col), Frac(8, 10)))
            THEN "Dry"
            ELSE "Normal"]

\* RainfallClassificationModel._classify_cluster_type
_classify_cluster_type(profile) ==
    IF FracLess(<<10000, 1>>, profile.avg_total_rainfall)
    THEN "High Rainfall Zone"
    ELSE IF FracLess(<<5000, 1>>, profile.avg_total_rainfall)
    THEN IF FracLess(<<50, 1>>, profile.avg_rainy_days)
         THEN "Moderate Rainfall, Frequent Rain"
         ELSE "Moderate Rainfall, Seasonal"
    ELSE IF FracLess(<<1000, 1>>, profile.avg_total_rainfall)
    THEN IF FracLess(<<200, 1>>, profile.avg_max_dry_spell)
         THEN "Low Rainfall, Drought Prone"
         ELSE "Low Rainfall, Stable"
    ELSE "Arid Zone"

\* The profile _create_cluster_profiles makes of the rows of one cluster.
_create_cluster_profiles(cluster_data) ==
    LET profile ==
            [size |-> Len(cluster_data),
             avg_total_rainfall |->
                 ColumnMean(cluster_data, "total_rainfall"),
             avg_rainy_days |->
                 ColumnMean(cluster_data, "rainy_days_percent"),
             avg_max_dry_spell |->
                 ColumnMean(cluster_data, "max_dry_spell"),
             typical_months |-> _get_typical_months(cluster_data)]
    IN  profile @@ [cluster_type |-> _classify_cluster_type(profile)]

\* ------------------------------------------------------------------------
\* Specification SpecFeatures: the two feature calculators on one series
\* ------------------------------------------------------------------------

\* The longest rainfall series.
MaxSeriesLen == 12

\* The rainfall values of a series, in mm.
RainValues == {0, 10}

Series == UNION {[1..n -> RainValues] : n \in 1..MaxSeriesLen}

InitFeatures ==
    /\ env = DefaultEnv
    /\ reading = ReadingA1
    /\ stored = FALSE
    /\ policy = NoPolicy
    /\ payout = NoCall
    /\ user_type = <<>>
    /\ policies = <<>>
    /\ analyses = <<>>
    /\ claims = <<>>
    /\ reqs = <<>>
    /\ response = NoResponse
    /\ rainfall \in Series
    /\ features = NoFeatures
    /\ files = [f \in Paths |-> NoFile]
    /\ predictor = NoPredictor
    /\ prediction = NoPrediction
    /\ raised = ""

\* The trainer prepares the features of the location with this series.
TrainerFeatures ==
    /\ features.by # "trainer"
    /\ features' = [by |-> "trainer", values |-> prepare_features(rainfall)]
    /\ UNCHANGED <<env, reading, stored, policy, payout, user_type, policies,
                   analyses, claims, reqs, response, rainfall, files,
                   predictor, prediction, raised>>

\* The predictor computes the features of the series.
PredictorFeatures ==
    /\ features.by # "predictor"
    /\ features' = [by |-> "predictor",
                    values |-> _calculate_features(rainfall)]
    /\ UNCHANGED <<env, reading, stored, policy, payout, user_type, policies,
                   analyses, claims, reqs, response, rainfall, files,
                   predictor, prediction, raised>>

NextFeatures == TrainerFeatures \/ PredictorFeatures

SpecFeatures == InitFeatures /\ [][NextFeatures]_vars

AllZero(s) == \A i \in 1..Len(s) : s[i] = 0

\* C18: for a series of N >= 1 zeros both calculators give total_rainfall 0,
\* rainy_days_percent 0, max_dry_spell N and cv_rainfall 0 and raise
\* nothing; for twelve zero months max_dry_spell is 12.
C18_AllZeroSeries ==
    (features.by # "none" /\ AllZero(rainfall)) =>
        /\ raised = ""
        /\ features.values.total_rainfall = Num(0, 1)
        /\ features.values.rainy_days_percent = Num(0, 1)
        /\ features.values.max_dry_spell = Num(Len(rainfall), 1)
        /\ features.values.cv_rainfall = Num(0, 1)

\* The predictor has computed the features of twelve zero months.
C18_Witness ==
    /\ features.by = "predictor"
    /\ Len(rainfall) = 12 /\ AllZero(rainfall)
    /\ features.values.max_dry_spell = Num(12, 1)

\* ------------------------------------------------------------------------
\* Rainfall zone model: the bundle, the predictor
\* ------------------------------------------------------------------------

\* RainfallClassificationModel.select_features: the columns it selects;
\* prepare_features provides every one of them.
SelectedFeatures ==
    <<"total_rainfall", "mean_rainfall", "cv_rainfall",
      "rainy_days_percent", "mean_rainy_day_intensity",
      "max_dry_spell", "avg_dry_spell", "dry_spell_frequency",
      "month_11_mean", "month_12_mean", "month_6_mean">>

\* The trainer object after train(df, n_clusters): the fitted KMeans, the
\* fitted scaler, the selected columns and a profile per cluster.
Trained(n_clusters) ==
    [model |-> [kind |-> "KMeans", n_clusters |-> n_clusters],
     scaler |-> [kind |-> "StandardScaler",
                 n_features |-> Len(SelectedFeatures)],
     feature_columns |-> SelectedFeatures,
     cluster_profiles |->
         [z \in 0..(n_clusters - 1) |->
             [size |-> 1,
              cluster_type |-> IF z = 0 THEN "Arid Zone"
                               ELSE "Low Rainfall, Stable"]]]

TrainerStates == {Trained(2), Trained(4)}

\* The dict save_model pickles.
model_data(t) ==
    [exists |-> TRUE, model |-> t.model, scaler |-> t.scaler,
     feature_columns |-> t.feature_columns,
     cluster_profiles |-> t.cluster_profiles]

\* A bundle in the layout RainfallZonePredictor reads, with the given
\* feature list.
ZoneBundle(names) ==
    [exists |-> TRUE,
     zone_model |-> [kind |-> "KMeans", n_clusters |-> 2],
     scaler |-> [kind |-> "StandardScaler", n_features |-> Len(names)],
     feature_names |-> names,
     zone_profiles |->
         [z \in {0} |->
             [zone_name |-> "Arid", zone_type |-> "Arid Zone",
              drought_risk |-> "High", premium_multiplier |-> 150,
              risk_score |-> 8]]]

\* The feature lists of the bundles on disk: one the predictor computes
\* in full, and the trainer's.
ZoneBundles ==
    {ZoneBundle(<<"total_rainfall", "cv_rainfall", "month_11_mean">>),
     ZoneBundle(SelectedFeatures)}

PklPaths == {"rainfall_classification_model.pkl", "rainfall_zone_model.pkl"}

\* save_model: the pickle is written, then the profiles are dumped as JSON;
\* json.dump refuses the numpy integers that key the profiles of a trained
\* model, after the file has been opened for writing.
save_model(t, model_path) ==
    /\ files' = [files EXCEPT
                    ![model_path] = model_data(t),
                    !["cluster_profiles.json"] =
                        [exists |-> TRUE, truncated |-> TRUE]]
    /\ raised' = "TypeError"
    /\ UNCHANGED <<env, reading, stored, policy, payout, user_type, policies,
                   analyses, claims, reqs, response, rainfall, features,
                   predictor, prediction>>

\* RainfallZonePredictor.__init__
RainfallZonePredictor(model_path) ==
    /\ LET d == files[model_path]
       IN  IF ~d.exists
           THEN /\ raised' = "FileNotFoundError"
                /\ UNCHANGED predictor
           ELSE IF {"zone_model", "scaler", "feature_names",
                    "zone_profiles"} \subseteq DOMAIN d
           THEN /\ predictor' =
                       [loaded |-> TRUE, zone_model |-> d.zone_model,
                        scaler |-> d.scaler,
                        feature_names |-> d.feature_names,
                        zone_profiles |-> d.zone_profiles]
                /\ raised' = ""
           ELSE /\ raised' = "KeyError"
                /\ UNCHANGED predictor
    /\ UNCHANGED <<env, reading, stored, policy, payout, user_type, policies,
                   analyses, claims, reqs, response, rainfall, features,
                   files, prediction>>

\* dict.get(name, default)
Get(d, name, default) == IF name \in DOMAIN d THEN d[name] ELSE default

\* RainfallZonePredictor._prepare_features
_prepare_features(feature_names, f) ==
    [i \in 1..Len(feature_names) |-> Get(f, feature_names[i], Num(0, 1))]

\* RainfallZonePredictor._format_result
_format_result(zone_profiles, zone_id, f, farm_id) ==
    LET profile == Get(zone_profiles, zone_id, <<>>)
    IN  [made |-> TRUE,
         farm_id |-> farm_id,
         zone_id |-> zone_id,
         zone_name |-> Get(profile, "zone_name",
                           "Zone_" \o ToString(zone_id + 1)),
         zone_type |-> Get(profile, "zone_type", "Unknown"),
         drought_risk |-> Get(profile, "drought_risk", "Unknown"),
         total_rainfall |-> f.total_rainfall,
         rainy_days_percent |-> f.rainy_days_percent,
         premium_multiplier |-> Get(profile, "premium_multiplier", 130),
         risk_score |-> Get(profile, "risk_score", 5)]

\* RainfallZonePredictor.predict of a constructed predictor; the fitted
\* KMeans answers with one of its clusters.
predict(farm_id) ==
    /\ predictor.loaded
    /\ LET f == _calculate_features(rainfall)
           feature_vector == _prepare_features(predictor.feature_names, f)
       IN  /\ features' = [by |-> "predictor", values |-> f]
           /\ IF Len(feature_vector) # predictor.scaler.n_features
              THEN /\ raised' = "ValueError"
                   /\ prediction' = NoPrediction
              ELSE \E zone_id \in 0..(predictor.zone_model.n_clusters - 1) :
                      /\ prediction' =
                             _format_result(predictor.zone_profiles, zone_id,
                                            f, farm_id)
                      /\ raised' = ""
    /\ UNCHANGED <<env, reading, stored, policy, payout, user_type, policies,
                   analyses, claims, reqs, response, rainfall, files,
                   predictor>>

\* ------------------------------------------------------------------------
\* Specification SpecZone: bundles are saved, a predictor is constructed
\* from one and asked for the zone of a location
\* ------------------------------------------------------------------------

\* The series a prediction is asked for: twelve dry months, the example of
\* predictor.py, and half a year.
ZoneSeries ==
    {<<0, 0, 0, 0, 0, 0, 0, 0, 0, 0, 0, 0>>,
     <<50, 40, 60, 80, 100, 20, 10, 5, 15, 40, 120, 90>>,
     <<50, 40, 0, 0, 100, 20>>}

InitZone ==
    /\ env = DefaultEnv
    /\ reading = ReadingA1
    /\ stored = FALSE
    /\ policy = NoPolicy
    /\ payout = NoCall
    /\ user_type = <<>>
    /\ policies = <<>>
    /\ analyses = <<>>
    /\ claims = <<>>
    /\ reqs = <<>>
    /\ response = NoResponse
    /\ rainfall \in ZoneSeries
    /\ features = NoFeatures
    /\ \E d \in {NoFile} \cup ZoneBundles :
          files = [f \in Paths |->
                      IF f = "rainfall_zone_model.pkl" THEN d ELSE NoFile]
    /\ predictor = NoPredictor
    /\ prediction = NoPrediction
    /\ raised = ""

NextZone ==
    \/ \E t \in TrainerStates, model_path \in PklPaths :
          save_model(t, model_path)
    \/ \E model_path \in PklPaths : RainfallZonePredictor(model_path)
    \/ predict("new_farm")

SpecZone == InitZone /\ [][NextZone]_vars

\* The names of the bundle's feature list that _calculate_features does not
\* compute for the series at hand.
MissingFeatures ==
    {predictor.feature_names[i] : i \in 1..Len(predictor.feature_names)}
        \ DOMAIN _calculate_features(rainfall)

\* C14: predict raises an error and returns no prediction whenever a name
\* of the bundle's feature list is not among the computed features.
C14_MissingFeatureIsAnError ==
    [][(predict("new_farm") /\ MissingFeatures # {})
          => raised' # "" /\ prediction' = NoPrediction]_vars

\* C15: a predictor constructed from a bundle that save_model wrote is
\* loaded, and its clustering model, scaler, feature list and profiles are
\* the saved ones.
C15_SaveLoadRoundTrip ==
    [][\A model_path \in PklPaths :
          (/\ files[model_path] \in {model_data(t) : t \in TrainerStates}
           /\ RainfallZonePredictor(model_path))
              => /\ raised' = ""
                 /\ predictor'.loaded
                 /\ predictor'.zone_model = files[model_path].model
                 /\ predictor'.scaler = files[model_path].scaler
                 /\ predictor'.feature_names =
                        files[model_path].feature_columns
                 /\ predictor'.zone_profiles =
                        files[model_path].cluster_profiles]_vars

\* ------------------------------------------------------------------------
\* Properties of the payout contributions (SpecPayout)
\* ------------------------------------------------------------------------

\* The NDVI and rainfall contributions of a payout for values that are
\* present and below their trigger, zero included.
PresentBelowNdvi(p, a) == a.ndvi # None /\ a.ndvi < p.ndvi_trigger
PresentBelowRainfall(p, a) ==
    a.rainfall_mm # None /\ a.rainfall_mm < p.rainfall_trigger

SeverityShare(p, value, trigger) ==
    FracMul(FracMul(<<p.sum_insured, 1>>, Frac(trigger - value, trigger)),
            Frac(4, 10))

\* C21: the NDVI contribution sum_insured * ((ndvi_trigger - ndvi) /
\* ndvi_trigger) * 0.4 is added whenever ndvi is present, 0 included, and
\* below ndvi_trigger, and the rainfall contribution likewise whenever
\* rainfall_mm is present, 0 mm included, and below rainfall_trigger; a
\* contribution is left out only when the value is null or not below its
\* trigger.
C21_ContributionWheneverPresentAndBelow ==
    (/\ payout # NoCall /\ stored
     /\ policy.ndvi_trigger # 0 /\ policy.rainfall_trigger # 0) =>
        /\ NdviContribution(policy, reading)
             = (IF PresentBelowNdvi(policy, reading)
                THEN SeverityShare(policy, reading.ndvi, policy.ndvi_trigger)
                ELSE <<0, 1>>)
        /\ RainfallContribution(policy, reading)
             = (IF PresentBelowRainfall(policy, reading)
                THEN SeverityShare(policy, reading.rainfall_mm,
                                   policy.rainfall_trigger)
                ELSE <<0, 1>>)

\* C22: the comparisons are strict: a value equal to its trigger adds no
\* contribution, and any present value strictly below its trigger adds a
\* positive contribution.
C22_StrictlyBelowAddsPositive ==
    (/\ payout # NoCall /\ stored
     /\ policy.ndvi_trigger # 0 /\ policy.rainfall_trigger # 0) =>
        /\ reading.ndvi = policy.ndvi_trigger =>
               NdviContribution(policy, reading) = <<0, 1>>
        /\ reading.rainfall_mm = policy.rainfall_trigger =>
               RainfallContribution(policy, reading) = <<0, 1>>
        /\ PresentBelowNdvi(policy, reading) =>
               FracLess(<<0, 1>>, NdviContribution(policy, reading))
        /\ PresentBelowRainfall(policy, reading) =>
               FracLess(<<0, 1>>, RainfallContribution(policy, reading))

\* None of the three trigger conditions of the payout rule holds.
NoTriggerFires(p, a) ==
    /\ ~PresentBelowNdvi(p, a)
    /\ ~PresentBelowRainfall(p, a)
    /\ ~(p.risk_level_trigger = "moderate"
           /\ a.drought_risk_level \in {"moderate", "high"})
    /\ ~(p.risk_level_trigger = "high" /\ a.drought_risk_level = "high")

\* C23: calculate_payout returns 0 when the analysis is absent, and 0 when
\* none of the three trigger conditions fires, for every deductible >= 0
\* and max_payout >= 0.
C23_NothingFiresPaysNothing ==
    (/\ payout # NoCall
     /\ policy.deductible >= 0 /\ policy.max_payout >= 0
     /\ ~stored \/ NoTriggerFires(policy, reading)) =>
        payout = Returned(0)

C23_Witness ==
    /\ payout = Returned(0)
    /\ stored
    /\ NoTriggerFires(policy, reading)
    /\ reading.ndvi # None /\ reading.rainfall_mm # None
    /\ policy.deductible > 0 /\ policy.max_payout > 0
    /\ policy.payout_rate > 0

\* ------------------------------------------------------------------------
\* Properties of the feature calculators (SpecFeatures)
\* ------------------------------------------------------------------------

\* The maximal runs of consecutive zero values of a series, each as the
\* pair of its first and last position.
ZeroRuns(s) ==
    {r \in (1..Len(s)) \X (1..Len(s)) :
        /\ r[1] <= r[2]
        /\ \A k \in r[1]..r[2] : s[k] = 0
        /\ r[1] = 1 \/ s[r[1] - 1] # 0
        /\ r[2] = Len(s) \/ s[r[2] + 1] # 0}

LongestZeroRun(s) ==
    IF ZeroRuns(s) = {} THEN 0
    ELSE LET lengths == {r[2] - r[1] + 1 : r \in ZeroRuns(s)}
         IN  CHOOSE m \in lengths : \A l \in lengths : l <= m

ZeroCount(s) == Cardinality({i \in 1..Len(s) : s[i] = 0})

\* C24: for every rainfall series the dry-spell scan gives max_dry_spell =
\* the length of the longest maximal run of consecutive zeros (0 without
\* one), avg_dry_spell = the mean length of the maximal zero runs (0 without
\* one) and dry_spell_frequency = the number of such runs divided by the
\* length of the series, a run that reaches the end of the series counted;
\* a series without a zero has max_dry_spell 0 and dry_spell_frequency 0.
C24_DrySpellsAreMaximalZeroRuns ==
    /\ features.by = "trainer" =>
         /\ features.values.max_dry_spell = Num(LongestZeroRun(rainfall), 1)
         /\ features.values.avg_dry_spell
              = (IF ZeroRuns(rainfall) = {} THEN Num(0, 1)
                 ELSE Num(ZeroCount(rainfall),
                          Cardinality(ZeroRuns(rainfall))))
         /\ features.values.dry_spell_frequency
              = Num(Cardinality(ZeroRuns(rainfall)), Len(rainfall))
         /\ ZeroCount(rainfall) = 0 =>
              /\ features.values.max_dry_spell = Num(0, 1)
              /\ features.values.dry_spell_frequency = Num(0, 1)
    /\ features.by = "predictor" =>
         /\ features.values.max_dry_spell = Num(LongestZeroRun(rainfall), 1)
         /\ ZeroCount(rainfall) = 0 =>
              features.values.max_dry_spell = Num(0, 1)

\* The trainer has scanned a series with a short dry spell, rain, and a
\* longer dry spell that runs to the end of the series.
C24_Witness ==
    /\ features.by = "trainer"
    /\ rainfall = <<10, 0, 10, 10, 0, 0, 0>>
    /\ features.values.max_dry_spell = Num(3, 1)
    /\ features.values.avg_dry_spell = Num(2, 1)
    /\ features.values.dry_spell_frequency = Num(2, 7)

\* C26: for the same twelve monthly values every feature the predictor
\* computes equals the feature of that name the trainer prepares, and the
\* predictor computes every feature the trainer selects.
C26_PredictorMatchesTrainer ==
    (features.by = "predictor" /\ Len(rainfall) = 12) =>
        LET trained == prepare_features(rainfall)
        IN  /\ \A k \in DOMAIN features.values \cap DOMAIN trained :
                   features.values[k] = trained[k]
            /\ \A i \in 1..Len(SelectedFeatures) :
                   SelectedFeatures[i] \in DOMAIN features.values

\* ------------------------------------------------------------------------
\* Specification SpecProfile: the trainer profiles one cluster
\* ------------------------------------------------------------------------

\* Twelve monthly values of a location, in mm, and a neighbour with the
\* same rain every month.
ProfileSeries == [1..12 -> {0, 500}]
Neighbour == [i \in 1..12 |-> 500]

\* The rows of a cluster of the given size: the location, with or without
\* its neighbour.
ClusterRows(size) ==
    IF size = 1 THEN <<prepare_features(rainfall)>>
    ELSE <<prepare_features(rainfall), prepare_features(Neighbour)>>

InitProfile ==
    /\ env = DefaultEnv
    /\ reading = ReadingA1
    /\ stored = FALSE
    /\ policy = NoPolicy
    /\ payout = NoCall
    /\ user_type = <<>>
    /\ policies = <<>>
    /\ analyses = <<>>
    /\ claims = <<>>
    /\ reqs = <<>>
    /\ response = NoResponse
    /\ rainfall \in ProfileSeries
    /\ features = NoFeatures
    /\ files = [f \in Paths |-> NoFile]
    /\ predictor = NoPredictor
    /\ prediction = NoPrediction
    /\ raised = ""

\* train has clustered the locations; the profile of the cluster of this
\* location is made.
CreateClusterProfiles ==
    /\ features = NoFeatures
    /\ \E size \in {1, 2} :
          features' = [by |-> "_create_cluster_profiles",
                       values |-> _create_cluster_profiles(ClusterRows(size))]
    /\ UNCHANGED <<env, reading, stored, policy, payout, user_type, policies,
                   analyses, claims, reqs, response, rainfall, files,
                   predictor, prediction, raised>>

NextProfile == CreateClusterProfiles

SpecProfile == InitProfile /\ [][NextProfile]_vars

\* The mean of the twelve monthly means of a cluster.
OverallMonthlyMean(cluster_data) ==
    LET F[m \in 0..12] ==
            IF m = 0 THEN <<0, 1>>
            ELSE FracAdd(F[m - 1], ColumnMean(cluster_data, MonthMean(m)))
    IN  FracMul(F[12], Frac(1, 12))

\* C25: month m is labelled 'Wet' when the zone's mean rainfall for month m
\* exceeds 1.2 times the zone's overall monthly mean (the mean over the
\* twelve monthly means), 'Dry' when it is below 0.8 times that mean, and
\* 'Normal' otherwise.
C25_TypicalMonthsAgainstOverallMean ==
    features.by = "_create_cluster_profiles" =>
        LET cluster_data == ClusterRows(features.values.size)
            overall == OverallMonthlyMean(cluster_data)
        IN  \A m \in 1..12 :
              LET month_avg == ColumnMean(cluster_data, MonthMean(m))
              IN  features.values.typical_months[m]
                    = (IF FracLess(FracMul(overall, Frac(12, 10)), month_avg)
                       THEN "Wet"
                       ELSE IF FracLess(month_avg,
                                        FracMul(overall, Frac(8, 10)))
                       THEN "Dry"
                       ELSE "Normal")

\* ------------------------------------------------------------------------
\* Further properties of the risk scorer (SpecScore)
\* ------------------------------------------------------------------------

\* C27: the risk scorer of gee_utils and the one of the model agree on
\* score and category for every ndvi, rainfall, ndmi and bsi, each null or
\* a number.
C27_ScorersAgree ==
    stored =>
        calculate_risk_from_gee(reading.ndvi, reading.rainfall_mm,
                                reading.ndmi, reading.bsi)
          = <<reading.drought_risk_level, reading.risk_score>>

\* A stored reading with a bare soil index on its threshold and a null
\* moisture index, scored 50 and 'moderate' by both.
C27_Witness ==
    /\ stored
    /\ reading.ndvi = 29 /\ reading.rainfall_mm = 49
    /\ reading.ndmi = None /\ reading.bsi = 30
    /\ reading.risk_score = 50
    /\ calculate_risk_from_gee(29, 49, None, 30) = <<"moderate", 50>>

\* C28: after every save, a risk score of 40 or more means the insurance
\* trigger is set, and the trigger is set exactly when the trigger reason
\* is non-empty, whatever the two environment thresholds are.
C28_ScoreFortyTriggers ==
    stored =>
        /\ reading.risk_score >= 40 => reading.insurance_triggered
        /\ reading.insurance_triggered <=> reading.trigger_reason # <<>>

\* A stored reading above both lowered thresholds, triggered by its risk
\* level alone.
C28_Witness ==
    /\ stored
    /\ env = [NDVI_THRESHOLD_SEVERE |-> 20, RAINFALL_THRESHOLD_MM |-> 25]
    /\ reading.ndvi = 29 /\ reading.rainfall_mm = 49
    /\ reading.risk_score >= 40
    /\ reading.insurance_triggered
    /\ reading.trigger_reason = <<"Drought risk level">>

\* ------------------------------------------------------------------------
\* Properties of approval and payment (Spec)
\* ------------------------------------------------------------------------

\* C29: after pay_claim the paid amount is the approved amount whenever an
\* approved amount is recorded, 0 included, and the claimed amount only
\* when no approved amount exists; it never exceeds the approved amount of
\* an approved claim.
C29_PaysApprovedAmount ==
    [][\A u \in Users, c \in 1..Len(claims) :
          (pay_claim(u, c, "POST") /\ is_admin(u)) =>
              /\ claims'[c].paid_amount
                   = (IF claims[c].approved_amount # None
                      THEN claims[c].approved_amount
                      ELSE claims[c].claimed_amount)
              /\ (/\ claims[c].status = "approved"
                  /\ claims[c].approved_amount # None) =>
                   claims'[c].paid_amount <= claims[c].approved_amount
      ]_vars

\* The fields an approval writes.
ReviewFields(c) ==
    <<c.status, c.approved_amount, c.reviewed_by, c.reviewed_date,
      c.review_notes>>

\* C30: approve_claim with an amount that is no number, or by a user who is
\* no administrator, or with a method other than POST, leaves status,
\* approved_amount, reviewed_by, reviewed_date and review_notes of the
\* claim as they were.
C30_RefusedApprovalChangesNothing ==
    [][\A u \in Users, c \in 1..Len(claims), x \in ApproveInputs :
          (/\ approve_claim(u, c, x[1], x[2])
           /\ \/ ~is_admin(u)
              \/ x[1] # "POST"
              \/ x[2].kind # "number") =>
              /\ Len(claims') = Len(claims)
              /\ \A i \in 1..Len(claims) :
                    ReviewFields(claims'[i]) = ReviewFields(claims[i])
      ]_vars

\* An administrator posted a text as the amount of a submitted claim: the
\* view flashed the error and the claim is still submitted and unreviewed.
C30_Witness ==
    /\ response.op = "approve_claim"
    /\ response.message = "error"
    /\ is_admin(response.user)
    /\ Len(claims) = 1
    /\ ReviewFields(claims[1]) = <<"submitted", None, NoUser, None, "">>

====
